---- MODULE Spec2Model ----
(***************************************************************************)
(* Playback drivers of the Calavera Literaria page.                        *)
(*                                                                         *)
(*  - Stanza audio sequencer : src/src/components/CalaveraPlayer.tsx       *)
(*  - Speech utterance driver: src/unnamed/part_000 (AudioController)      *)
(*                                                                         *)
(* Each handler of the components is one action.  The host (HTMLAudio     *)
(* elements, window timers, the speech engine) is modelled by the events   *)
(* it delivers to the callbacks the handlers register.  Time is abstract:  *)
(* a pending timer may fire whenever no timer that is certain to be due    *)
(* earlier (same delay armed before it, or a shorter delay armed no later) *)
(* is still pending.                                                       *)
(***************************************************************************)
EXTENDS Integers, Sequences, FiniteSets, TLC

\* ---------------------------------------------------------------- bounds
MaxStanzas == 2      \* stanzas.length ranges over 0..MaxStanzas
MaxHandles == 3      \* audio elements created in one run
MaxOps     == 3      \* user clicks on playback buttons in one run
MaxChunks  == 2      \* phrases the poem text is put together from
MaxUtterances == 3   \* utterances created in one run

\* ------------------------------------------------------------- variables
VARIABLES
  stanzaCount,        \* stanzas.length (prop, immutable)
  asset,              \* host: what /sounds/stanza{i+1}.wav does, per index
  playState,          \* useState<PlayState>
  currentStanzaIndex, \* useState(0)
  showAll,            \* useState(false)
  currentAudioRef,    \* useRef: 0 = null, else an index into audios
  fallbackTimerRef,   \* useRef: 0 = null, else a timer id
  audios,             \* every Audio element created so far, with the locals
                      \* of the playStanza call that created it
  probes,             \* handles whose 500 ms setTimeout is pending
  timers,             \* pending 10 s timers, in the order they were armed
  nextTimer,          \* next timer id handed out by setTimeout
  replayTimers,       \* pending 100 ms deferred handlePlay of handleReplay
  ops,                \* history: playback buttons clicked so far
  sinceStop,          \* history: handleStop ran and handlePlay has not since
  mounted,            \* React: the component is mounted
  \* ---- speech utterance driver (AudioController)
  calavera,           \* prop: the poem, a sequence of characters
  audioState,         \* useState<AudioState>
  isSupported,        \* useState(true), settled by the mount effect
  utteranceRef,       \* useRef: 0 = null, else an index into utts
  utts,               \* every SpeechSynthesisUtterance created so far
  lastBoundary,       \* engine: charIndex of the last boundary event of the
                      \* utterance being spoken (-1 before the first)
  fx,                 \* history: sound effects played, per effect, since
                      \* the last utterance was submitted (one narration pass)
  queue,              \* speechSynthesis: utterances queued or being spoken
  enginePaused,       \* speechSynthesis.paused
  cancelEvents,       \* cancelled utterances whose error event is in flight
  notified,           \* last value passed to onStateChange ("none" at first)
  alerted,            \* history: the unsupported-browser alert was shown
  spReplayTimers,     \* pending 100 ms deferred handlePlay of handleReplay
  spLast,             \* history: the handler or callback that ran last, the
                      \* speechSynthesis methods it called and the value it
                      \* passed to onStateChange ("none" if it passed none)
  spSinceStop         \* history: handleStop ran and no utterance has been
                      \* submitted since

seqVars == <<stanzaCount, asset, playState, currentStanzaIndex, showAll,
             currentAudioRef, fallbackTimerRef, audios, probes, timers,
             nextTimer, replayTimers, ops, sinceStop, mounted>>

spVars == <<calavera, audioState, isSupported, utteranceRef, utts,
            lastBoundary, fx, queue,
            enginePaused, cancelEvents, notified, alerted, spReplayTimers,
            spLast, spSinceStop>>

vars == <<seqVars, spVars>>

\* What the host does with the asset of a stanza:
\*   "ok"      canplay fires, play() resolves, the clip runs to its end
\*   "blocked" canplay fires, play() called from the canplay handler rejects
\*   "error"   the error event fires (missing or corrupt file)
\*   "stall"   neither canplay nor error ever fires
Outcomes == {"ok", "blocked", "error", "stall"}

PlayStates == {"idle", "playing", "paused", "ended"}

\* ------------------------------------------------------ helper operators
Min(S) == CHOOSE x \in S : \A y \in S : x <= y

\* clearTimeout(id): a pending timer with that id is removed, anything
\* else (null, fired, already cleared) is a no-op.
ClearTimeout(tms, id) ==
  LET keep(t) == t.id # id IN SelectSeq(tms, keep)

\* HTMLMediaElement.pause()
ElPause(a) == [a EXCEPT !.paused = TRUE]

\* HTMLMediaElement.play() that the host lets through: a failed load
\* rejects and leaves the element as it is; otherwise playback is requested
\* (and an element that had ended restarts).
ElPlay(a) ==
  IF a.load = "error" THEN a
  ELSE [a EXCEPT !.paused = FALSE, !.ended = FALSE]

\* new Audio(path) together with the locals of playStanza
NewAudio(index, parent, via) ==
  [idx |-> index, load |-> "loading", audioLoaded |-> FALSE,
   paused |-> TRUE, ended |-> FALSE, fallbackTimer |-> 0,
   parent |-> parent, via |-> via, advances |-> <<>>, armed |-> <<>>]

\* history entry of a click: the button, the number of audio elements and
\* the stanza index at the time of the click, and whether a 10 s timer of
\* the element in currentAudioRef was pending
Click(op) ==
  [op |-> op, n |-> Len(audios), i |-> currentStanzaIndex,
   w |-> \E k \in 1..Len(timers) :
            timers[k].h = currentAudioRef]

OpNames == [k \in 1..Len(ops) |-> ops[k].op]

\* playStanza(index), run after the caller has produced the intermediate
\* values ps (playState), ci (currentStanzaIndex), auds and tms.
\* parent/via record which callback asked for the stanza (history only).
\* The cap on the number of elements bounds the model, not the program.
\* React drops the state updates of a component that has been unmounted.
PlayStanza(index, ps, ci, auds, tms, parent, via) ==
  IF index >= stanzaCount
  THEN /\ playState' = IF mounted THEN "ended" ELSE playState
       /\ currentStanzaIndex' = IF mounted THEN ci ELSE currentStanzaIndex
       /\ audios' = auds
       /\ timers' = tms
       /\ UNCHANGED <<currentAudioRef, probes>>
  ELSE /\ Len(auds) < MaxHandles
       /\ playState' = IF mounted THEN ps ELSE playState
       /\ currentStanzaIndex' = IF mounted THEN index
                                ELSE currentStanzaIndex
       /\ audios' = Append(auds, NewAudio(index, parent, via))
       /\ currentAudioRef' = Len(auds) + 1
       /\ probes' = probes \cup {Len(auds) + 1}
       /\ timers' = tms

\* useFallback() of handle h: arm a 10 s timer, remember it in the local
\* fallbackTimer and in fallbackTimerRef.
\* (why: the caller, kept in the element's history field armed.)
UseFallback(h, auds, why) ==
  /\ timers' = Append(timers, [id |-> nextTimer, h |-> h,
                               birth |-> Len(audios)])
  /\ nextTimer' = nextTimer + 1
  /\ fallbackTimerRef' = nextTimer
  /\ audios' = [auds EXCEPT ![h].fallbackTimer = nextTimer,
                            ![h].armed = Append(@, why)]

\* -------------------------------------------------------- sequencer Init
SeqInit ==
  /\ stanzaCount \in 0..MaxStanzas
  /\ asset \in [0..(stanzaCount - 1) -> Outcomes]
  /\ playState = "idle"
  /\ currentStanzaIndex = 0
  /\ showAll = FALSE
  /\ currentAudioRef = 0
  /\ fallbackTimerRef = 0
  /\ audios = <<>>
  /\ probes = {}
  /\ timers = <<>>
  /\ nextTimer = 1
  /\ replayTimers = <<>>
  /\ ops = <<>>
  /\ sinceStop = FALSE
  /\ mounted = TRUE

\* ------------------------------------------------------ handler bodies
\* handlePlay
DoHandlePlay ==
  /\ PlayStanza(0, "playing", 0, audios, timers, 0, "play")
  /\ showAll' = IF mounted THEN FALSE ELSE showAll
  /\ sinceStop' = FALSE
  /\ UNCHANGED <<fallbackTimerRef, nextTimer>>

\* handleStop
DoHandleStop ==
  /\ audios' = IF currentAudioRef # 0
               THEN [audios EXCEPT ![currentAudioRef] = ElPause(@)]
               ELSE audios
  /\ currentAudioRef' = 0
  /\ timers' = ClearTimeout(timers, fallbackTimerRef)
  /\ playState' = "idle"
  /\ currentStanzaIndex' = 0
  /\ sinceStop' = TRUE
  /\ UNCHANGED <<fallbackTimerRef, nextTimer, probes>>

\* ------------------------------------------------------------- buttons
\* The buttons are rendered from playState and showAll; a handler can run
\* only while its button is on screen.
ClickPlay ==
  /\ mounted
  /\ playState = "idle" /\ ~showAll
  /\ Len(ops) < MaxOps
  /\ DoHandlePlay
  /\ ops' = Append(ops, Click("play"))
  /\ UNCHANGED <<stanzaCount, asset, mounted, replayTimers>>

ClickPause ==
  /\ mounted
  /\ playState = "playing"
  /\ Len(ops) < MaxOps
  /\ audios' = IF currentAudioRef # 0
               THEN [audios EXCEPT ![currentAudioRef] = ElPause(@)]
               ELSE audios
  /\ timers' = ClearTimeout(timers, fallbackTimerRef)
  /\ playState' = "paused"
  /\ ops' = Append(ops, Click("pause"))
  /\ UNCHANGED <<stanzaCount, asset, mounted, currentStanzaIndex, showAll,
                 currentAudioRef, fallbackTimerRef, probes, nextTimer,
                 replayTimers, sinceStop>>

\* The play() of handleResume is made from a click: the host lets it
\* through for every asset except that a "blocked" asset may stay blocked.
ClickResume ==
  /\ mounted
  /\ playState = "paused"
  /\ Len(ops) < MaxOps
  /\ ops' = Append(ops, Click("resume"))
  /\ IF currentAudioRef # 0 /\ audios[currentAudioRef].paused
     THEN /\ playState' = "playing"
          /\ \E allowed \in IF asset[audios[currentAudioRef].idx] = "blocked"
                            THEN {TRUE, FALSE} ELSE {TRUE} :
               audios' = IF allowed
                         THEN [audios EXCEPT ![currentAudioRef] = ElPlay(@)]
                         ELSE audios
          /\ UNCHANGED <<currentStanzaIndex, currentAudioRef, probes, timers>>
     ELSE PlayStanza(currentStanzaIndex, "playing", currentStanzaIndex,
                     audios, timers, currentAudioRef, "resume")
  /\ UNCHANGED <<stanzaCount, asset, mounted, showAll, fallbackTimerRef, nextTimer,
                 replayTimers, sinceStop>>

ClickStop ==
  /\ mounted
  /\ playState \in {"playing", "paused"}
  /\ Len(ops) < MaxOps
  /\ DoHandleStop
  /\ ops' = Append(ops, Click("stop"))
  /\ UNCHANGED <<stanzaCount, asset, mounted, showAll, replayTimers>>

\* handleReplay: handleStop now, handlePlay from a 100 ms timer
ClickReplay ==
  /\ mounted
  /\ playState = "ended" /\ ~showAll
  /\ Len(ops) < MaxOps
  /\ DoHandleStop
  /\ replayTimers' = Append(replayTimers,
                            [birthH |-> Len(audios), birthT |-> nextTimer])
  /\ ops' = Append(ops, Click("replay"))
  /\ UNCHANGED <<stanzaCount, asset, mounted, showAll>>

\* the cleanup of the mount effect, run by React when the component is
\* unmounted: the element in currentAudioRef is paused and the ref set to
\* null, the timer in fallbackTimerRef is cleared
Unmount ==
  /\ mounted
  /\ mounted' = FALSE
  /\ audios' = IF currentAudioRef # 0
               THEN [audios EXCEPT ![currentAudioRef] = ElPause(@)]
               ELSE audios
  /\ currentAudioRef' = 0
  /\ timers' = ClearTimeout(timers, fallbackTimerRef)
  /\ UNCHANGED <<stanzaCount, asset, playState, currentStanzaIndex, showAll,
                 fallbackTimerRef, probes, nextTimer, replayTimers, ops,
                 sinceStop>>

\* the show-all button, had its handler gone back to the first stanza
ClickShowAll_Rewinding ==
  /\ mounted
  /\ ~showAll /\ playState # "idle"
  /\ showAll' = TRUE
  /\ currentStanzaIndex' = 0
  /\ UNCHANGED <<stanzaCount, asset, mounted, playState,
                 currentAudioRef, fallbackTimerRef, audios, probes, timers,
                 nextTimer, replayTimers, ops, sinceStop>>

ClickShowAll ==
  /\ mounted
  /\ ~showAll /\ playState # "idle"
  /\ showAll' = TRUE
  /\ UNCHANGED <<stanzaCount, asset, mounted, playState, currentStanzaIndex,
                 currentAudioRef, fallbackTimerRef, audios, probes, timers,
                 nextTimer, replayTimers, ops, sinceStop>>

ClickBack ==
  /\ mounted
  /\ showAll /\ playState \in {"idle", "ended"}
  /\ showAll' = FALSE
  /\ UNCHANGED <<stanzaCount, asset, mounted, playState, currentStanzaIndex,
                 currentAudioRef, fallbackTimerRef, audios, probes, timers,
                 nextTimer, replayTimers, ops, sinceStop>>

\* ------------------------------------------------------- media events
\* 'canplay' -> handleCanPlay.  The play() rejection handler (useFallback)
\* runs in the same step as the call that is rejected.
CanPlay(h) ==
  /\ audios[h].load = "loading"
  /\ asset[audios[h].idx] \in {"ok", "blocked"}
  /\ LET a == [audios[h] EXCEPT !.load = "ok", !.audioLoaded = TRUE] IN
       IF asset[a.idx] = "blocked" /\ a.paused
       THEN UseFallback(h, [audios EXCEPT ![h] = a], "rejected")
       ELSE /\ audios' = [audios EXCEPT ![h] = ElPlay(a)]
            /\ UNCHANGED <<timers, nextTimer, fallbackTimerRef>>
  /\ UNCHANGED <<stanzaCount, asset, mounted, playState, currentStanzaIndex, showAll,
                 currentAudioRef, probes, replayTimers, ops, sinceStop>>

\* 'error' -> handleError
AudioError(h) ==
  /\ audios[h].load = "loading"
  /\ asset[audios[h].idx] = "error"
  /\ UseFallback(h, [audios EXCEPT ![h].load = "error"], "error")
  /\ UNCHANGED <<stanzaCount, asset, mounted, playState, currentStanzaIndex, showAll,
                 currentAudioRef, probes, replayTimers, ops, sinceStop>>

\* 'ended' -> handleEnded.  The host sets paused when playback ends.
Ended(h) ==
  /\ audios[h].load = "ok" /\ ~audios[h].paused /\ ~audios[h].ended
  /\ PlayStanza(audios[h].idx + 1, playState, currentStanzaIndex,
                [audios EXCEPT ![h].ended = TRUE, ![h].paused = TRUE,
                                ![h].advances = Append(@, "ended")],
                ClearTimeout(timers, audios[h].fallbackTimer), h, "ended")
  /\ UNCHANGED <<stanzaCount, asset, mounted, showAll, fallbackTimerRef, nextTimer,
                 replayTimers, ops, sinceStop>>

\* ------------------------------------------------------------- timers
\* Probe with its test inverted: the fallback is armed when the asset has
\* loaded and not when it has not.
Probe_Inverted(h) ==
  /\ h \in probes
  /\ h = Min(probes)
  /\ \A i \in 1..Len(replayTimers) : replayTimers[i].birthH >= h
  /\ probes' = probes \ {h}
  /\ IF audios[h].audioLoaded
     THEN UseFallback(h, audios, "probe")
     ELSE UNCHANGED <<audios, timers, nextTimer, fallbackTimerRef>>
  /\ UNCHANGED <<stanzaCount, asset, mounted, playState, currentStanzaIndex, showAll,
                 currentAudioRef, replayTimers, ops, sinceStop>>

\* the 500 ms setTimeout of playStanza
Probe(h) ==
  /\ h \in probes
  /\ h = Min(probes)
  /\ \A i \in 1..Len(replayTimers) : replayTimers[i].birthH >= h
  /\ probes' = probes \ {h}
  /\ IF ~audios[h].audioLoaded
     THEN UseFallback(h, audios, "probe")
     ELSE UNCHANGED <<audios, timers, nextTimer, fallbackTimerRef>>
  /\ UNCHANGED <<stanzaCount, asset, mounted, playState, currentStanzaIndex, showAll,
                 currentAudioRef, replayTimers, ops, sinceStop>>

\* the 10 s setTimeout of useFallback
FallbackFire ==
  /\ timers # <<>>
  /\ \A p \in probes : p > Head(timers).birth
  /\ \A i \in 1..Len(replayTimers) : replayTimers[i].birthT > Head(timers).id
  /\ PlayStanza(audios[Head(timers).h].idx + 1, playState,
                currentStanzaIndex,
                [audios EXCEPT ![Head(timers).h].advances =
                                  Append(@, "timer")],
                Tail(timers), Head(timers).h, "timer")
  /\ UNCHANGED <<stanzaCount, asset, mounted, showAll, fallbackTimerRef, nextTimer,
                 replayTimers, ops, sinceStop>>

\* the 100 ms setTimeout of handleReplay
ReplayFire ==
  /\ replayTimers # <<>>
  /\ DoHandlePlay
  /\ replayTimers' = Tail(replayTimers)
  /\ UNCHANGED <<stanzaCount, asset, mounted, ops>>

\* ================================================ speech utterance driver

\* Characters are one-character strings and a text is a sequence of them.
\* (The accented o of the source's 'entr\'o' is written o here.)
LaCalaca == <<"l","a"," ","C","a","l","a","c","a">>
LaMeraMera == <<","," ","l","a"," ","m","e","r","a","-","m","e","r","a">>
EntroAaron == <<"e","n","t","r","o"," ","A","a","r","o","n">>

\* the phrases the poems of the model are put together from
Phrases ==
  { LaCalaca, LaMeraMera, <<" ">> \o EntroAaron,
    <<" ","y"," ","r","i","e">> }

RECURSIVE Flatten(_)
Flatten(ps) == IF ps = <<>> THEN <<>> ELSE Head(ps) \o Flatten(Tail(ps))

Poems == { Flatten(ps) : ps \in UNION { [1..n -> Phrases] : n \in 1..MaxChunks } }

\* String.prototype.substring(0, n)
Prefix(text, n) == SubSeq(text, 1, IF n > Len(text) THEN Len(text) ELSE n)

\* String.prototype.includes
Includes(text, pat) ==
  \E k \in 0..(Len(text) - Len(pat)) : SubSeq(text, k + 1, k + Len(pat)) = pat

\* charIndex values of boundary events: the offsets at which a word starts
WordStarts(text) ==
  { c \in 0..(Len(text) - 1) :
      text[c + 1] # " " /\ (c = 0 \/ text[c] = " ") }

Effects == {"laugh", "chains", "steps", "dramatic"}

\* new SpeechSynthesisUtterance(calavera) with what has become of it
NewUtterance == [status |-> "queued", by |-> "none"]

NoEffects == [e \in Effects |-> 0]

\* playSoundEffect(effect): the clip preloaded at mount is rewound and played
PlaySoundEffect(f, effect) == [f EXCEPT ![effect] = @ + 1]

\* speechSynthesis.speaking
EngineSpeaking == \E k \in 1..Len(queue) : utts[queue[k]].status = "speaking"

\* speechSynthesis.cancel(): the queue is emptied; every utterance removed
\* is sent an error event ("canceled" if it had not begun to be spoken,
\* "interrupted" if it had); the paused flag stays.
\* (by: the handler that made the call, kept as history.)
CancelUtts(us, q, by) ==
  [u \in 1..Len(us) |->
     IF \E k \in 1..Len(q) : q[k] = u
     THEN [us[u] EXCEPT !.status = IF @ = "speaking" THEN "interrupted"
                                   ELSE "canceled",
                        !.by = by]
     ELSE us[u]]

QueueSet(q) == {q[k] : k \in 1..Len(q)}

\* history record of one run of a handler or callback
Did(op, calls, notif) == [op |-> op, calls |-> calls, notif |-> notif]

\* the driver after mount, whatever the poem
SpMounted ==
  /\ audioState = "idle"
  /\ isSupported \in BOOLEAN
  /\ utteranceRef = 0
  /\ utts = <<>>
  /\ lastBoundary = -1
  /\ fx = NoEffects
  /\ queue = <<>>
  /\ enginePaused = FALSE
  /\ cancelEvents = {}
  /\ notified = "none"
  /\ alerted = FALSE
  /\ spReplayTimers = 0
  /\ spLast = Did("mount", {}, "none")
  /\ spSinceStop = FALSE

SpInit == calavera \in Poems /\ SpMounted

\* the speech driver of a page that shows the sequencer only
SpAbsent ==
  /\ calavera = <<>>
  /\ audioState = "idle"
  /\ isSupported = TRUE
  /\ utteranceRef = 0
  /\ utts = <<>>
  /\ lastBoundary = -1
  /\ fx = NoEffects
  /\ queue = <<>>
  /\ enginePaused = FALSE
  /\ cancelEvents = {}
  /\ notified = "none"
  /\ alerted = FALSE
  /\ spReplayTimers = 0
  /\ spLast = Did("mount", {}, "none")
  /\ spSinceStop = FALSE

\* the sequencer of a page that shows the speech driver only
SeqAbsent ==
  /\ stanzaCount = 0
  /\ asset = <<>>
  /\ playState = "idle"
  /\ currentStanzaIndex = 0
  /\ showAll = FALSE
  /\ currentAudioRef = 0
  /\ fallbackTimerRef = 0
  /\ audios = <<>>
  /\ probes = {}
  /\ timers = <<>>
  /\ nextTimer = 1
  /\ replayTimers = <<>>
  /\ ops = <<>>
  /\ sinceStop = FALSE
  /\ mounted = TRUE

\* handlePlay without its speechSynthesis.cancel()
SpDoHandlePlay_NoCancel ==
  IF ~isSupported
  THEN /\ alerted' = TRUE
       /\ spLast' = Did("play", {}, "none")
       /\ UNCHANGED <<audioState, utteranceRef, utts, lastBoundary, fx,
                      queue, cancelEvents, notified, spSinceStop>>
  ELSE /\ Len(utts) < MaxUtterances
       /\ utts' = Append(utts, NewUtterance)
       /\ utteranceRef' = Len(utts) + 1
       /\ queue' = Append(queue, Len(utts) + 1)
       /\ lastBoundary' = -1
       /\ fx' = NoEffects
       /\ spLast' = Did("play", {"speak"}, "none")
       /\ spSinceStop' = FALSE
       /\ UNCHANGED <<audioState, notified, alerted, cancelEvents>>

\* handlePlay without the isSupported test of lines 60-63
SpDoHandlePlay_NoSupportTest ==
  /\ Len(utts) < MaxUtterances
  /\ cancelEvents' = cancelEvents \cup QueueSet(queue)
  /\ utts' = Append(CancelUtts(utts, queue, "play"), NewUtterance)
  /\ utteranceRef' = Len(utts) + 1
  /\ queue' = <<Len(utts) + 1>>
  /\ lastBoundary' = -1
  /\ fx' = NoEffects
  /\ spLast' = Did("play", {"cancel", "speak"}, "none")
  /\ spSinceStop' = FALSE
  /\ UNCHANGED <<audioState, notified, alerted>>

\* handlePlay, had it set the state to playing when it submits
SpDoHandlePlay_Eager ==
  IF ~isSupported
  THEN /\ alerted' = TRUE
       /\ spLast' = Did("play", {}, "none")
       /\ UNCHANGED <<audioState, utteranceRef, utts, lastBoundary, fx,
                      queue, cancelEvents, notified, spSinceStop>>
  ELSE /\ Len(utts) < MaxUtterances
       /\ cancelEvents' = cancelEvents \cup QueueSet(queue)
       /\ utts' = Append(CancelUtts(utts, queue, "play"), NewUtterance)
       /\ utteranceRef' = Len(utts) + 1
       /\ queue' = <<Len(utts) + 1>>
       /\ lastBoundary' = -1
       /\ fx' = NoEffects
       /\ audioState' = "playing"
       /\ notified' = "playing"
       /\ spLast' = Did("play", {"cancel", "speak"}, "playing")
       /\ spSinceStop' = FALSE
       /\ UNCHANGED alerted

\* handlePlay
SpDoHandlePlay ==
  IF ~isSupported
  THEN /\ alerted' = TRUE
       /\ spLast' = Did("play", {}, "none")
       /\ UNCHANGED <<audioState, utteranceRef, utts, lastBoundary, fx,
                      queue, cancelEvents, notified, spSinceStop>>
  ELSE /\ Len(utts) < MaxUtterances
       /\ cancelEvents' = cancelEvents \cup QueueSet(queue)
       /\ utts' = Append(CancelUtts(utts, queue, "play"), NewUtterance)
       /\ utteranceRef' = Len(utts) + 1
       /\ queue' = <<Len(utts) + 1>>
       /\ lastBoundary' = -1
       /\ fx' = NoEffects
       /\ spLast' = Did("play", {"cancel", "speak"}, "none")
       /\ spSinceStop' = FALSE
       /\ UNCHANGED <<audioState, notified, alerted>>

\* handleStop
SpDoHandleStop ==
  /\ cancelEvents' = cancelEvents \cup QueueSet(queue)
  /\ utts' = CancelUtts(utts, queue, "stop")
  /\ queue' = <<>>
  /\ audioState' = "idle"
  /\ notified' = "idle"
  /\ spLast' = Did("stop", {"cancel"}, "idle")
  /\ spSinceStop' = TRUE
  /\ UNCHANGED <<utteranceRef, lastBoundary, fx, alerted>>

SpClickPlay ==
  /\ audioState = "idle"
  /\ SpDoHandlePlay
  /\ UNCHANGED <<calavera, isSupported, enginePaused, spReplayTimers>>

\* handlePause without the test of speechSynthesis.speaking and .paused
SpClickPause_Untested ==
  /\ audioState = "playing"
  /\ enginePaused' = TRUE
  /\ audioState' = "paused"
  /\ notified' = "paused"
  /\ spLast' = Did("pause", {"pause"}, "paused")
  /\ UNCHANGED <<calavera, isSupported, utteranceRef, utts, lastBoundary,
                 fx, queue, cancelEvents, alerted, spReplayTimers,
                 spSinceStop>>

SpClickPause ==
  /\ audioState = "playing"
  /\ IF EngineSpeaking /\ ~enginePaused
     THEN /\ enginePaused' = TRUE
          /\ audioState' = "paused"
          /\ notified' = "paused"
          /\ spLast' = Did("pause", {"pause"}, "paused")
     ELSE /\ spLast' = Did("pause", {}, "none")
          /\ UNCHANGED <<enginePaused, audioState, notified>>
  /\ UNCHANGED <<calavera, isSupported, utteranceRef, utts, lastBoundary,
                 fx, queue, cancelEvents, alerted, spReplayTimers,
                 spSinceStop>>

SpClickResume ==
  /\ audioState = "paused"
  /\ IF enginePaused
     THEN /\ enginePaused' = FALSE
          /\ audioState' = "playing"
          /\ notified' = "playing"
          /\ spLast' = Did("resume", {"resume"}, "playing")
     ELSE /\ spLast' = Did("resume", {}, "none")
          /\ UNCHANGED <<enginePaused, audioState, notified>>
  /\ UNCHANGED <<calavera, isSupported, utteranceRef, utts, lastBoundary,
                 fx, queue, cancelEvents, alerted, spReplayTimers,
                 spSinceStop>>

SpClickStop ==
  /\ audioState \in {"playing", "paused"}
  /\ SpDoHandleStop
  /\ UNCHANGED <<calavera, isSupported, enginePaused, spReplayTimers>>

SpClickReplay ==
  /\ audioState = "ended"
  /\ SpDoHandleStop
  /\ spReplayTimers' = spReplayTimers + 1
  /\ UNCHANGED <<calavera, isSupported, enginePaused>>

SpReplayFire ==
  /\ spReplayTimers > 0
  /\ SpDoHandlePlay
  /\ spReplayTimers' = spReplayTimers - 1
  /\ UNCHANGED <<calavera, isSupported, enginePaused>>

\* utterance.onstart without its call of onStateChange
OnStart_Unreported(u) ==
  /\ queue # <<>> /\ Head(queue) = u
  /\ utts[u].status = "queued"
  /\ ~enginePaused
  /\ utts' = [utts EXCEPT ![u].status = "speaking"]
  /\ audioState' = "playing"
  /\ fx' = PlaySoundEffect(fx, "dramatic")
  /\ spLast' = Did("start", {}, "none")
  /\ UNCHANGED <<calavera, isSupported, utteranceRef, lastBoundary, queue,
                 enginePaused, notified,
                 cancelEvents, alerted, spReplayTimers, spSinceStop>>

\* utterance.onstart
OnStart(u) ==
  /\ queue # <<>> /\ Head(queue) = u
  /\ utts[u].status = "queued"
  /\ ~enginePaused
  /\ utts' = [utts EXCEPT ![u].status = "speaking"]
  /\ audioState' = "playing"
  /\ notified' = "playing"
  /\ fx' = PlaySoundEffect(fx, "dramatic")
  /\ spLast' = Did("start", {}, "playing")
  /\ UNCHANGED <<calavera, isSupported, utteranceRef, lastBoundary, queue,
                 enginePaused,
                 cancelEvents, alerted, spReplayTimers, spSinceStop>>

\* utterance.onboundary with event.charIndex = c
OnBoundary(u, c) ==
  /\ utts[u].status = "speaking"
  /\ ~enginePaused
  /\ c \in WordStarts(calavera)
  /\ c > lastBoundary
  /\ lastBoundary' = c
  /\ LET text == Prefix(calavera, c)
         f1 == IF Includes(text, LaCalaca)
                  /\ ~Includes(text, LaCalaca \o LaMeraMera)
               THEN PlaySoundEffect(fx, "chains") ELSE fx
         f2 == IF Includes(text, EntroAaron)
               THEN PlaySoundEffect(f1, "steps") ELSE f1
     IN fx' = f2
  /\ spLast' = Did("boundary", {}, "none")
  /\ UNCHANGED <<calavera, audioState, isSupported, utteranceRef, utts, queue,
                 enginePaused, cancelEvents, notified, alerted,
                 spReplayTimers, spSinceStop>>

\* utterance.onend
OnEnd(u) ==
  /\ utts[u].status = "speaking"
  /\ ~enginePaused
  /\ utts' = [utts EXCEPT ![u].status = "ended"]
  /\ queue' = Tail(queue)
  /\ audioState' = "ended"
  /\ notified' = "ended"
  /\ fx' = PlaySoundEffect(fx, "laugh")
  /\ spLast' = Did("end", {}, "ended")
  /\ UNCHANGED <<calavera, isSupported, utteranceRef, lastBoundary,
                 enginePaused,
                 cancelEvents, alerted, spReplayTimers, spSinceStop>>

\* utterance.onerror, had it submitted the text again
OnError_Retrying(u) ==
  /\ queue # <<>> /\ Head(queue) = u
  /\ Len(utts) < MaxUtterances
  /\ utts' = Append([utts EXCEPT ![u].status = "failed"], NewUtterance)
  /\ utteranceRef' = Len(utts) + 1
  /\ queue' = Append(Tail(queue), Len(utts) + 1)
  /\ audioState' = "idle"
  /\ notified' = "idle"
  /\ spLast' = Did("error", {"speak"}, "idle")
  /\ UNCHANGED <<calavera, isSupported, lastBoundary, fx,
                 enginePaused, cancelEvents, alerted, spReplayTimers,
                 spSinceStop>>

\* utterance.onerror: the synthesis of a queued or spoken utterance fails
OnError(u) ==
  /\ queue # <<>> /\ Head(queue) = u
  /\ utts' = [utts EXCEPT ![u].status = "failed"]
  /\ queue' = Tail(queue)
  /\ audioState' = "idle"
  /\ notified' = "idle"
  /\ spLast' = Did("error", {}, "idle")
  /\ UNCHANGED <<calavera, isSupported, utteranceRef, lastBoundary, fx,
                 enginePaused, cancelEvents, alerted, spReplayTimers,
                 spSinceStop>>

\* utterance.onerror: the error event of an utterance removed by cancel()
OnCancelled(u) ==
  /\ u \in cancelEvents
  /\ cancelEvents' = cancelEvents \ {u}
  /\ audioState' = "idle"
  /\ notified' = "idle"
  /\ spLast' = Did("error", {}, "idle")
  /\ UNCHANGED <<calavera, isSupported, utteranceRef, utts, lastBoundary,
                 fx, queue, enginePaused, alerted, spReplayTimers,
                 spSinceStop>>

\* utterance.onend: the end event of an utterance that cancel() cut off
\* while it was being spoken.  Which of the two events, error or end, a
\* speech engine sends to an utterance it was speaking when cancel() was
\* called differs between engines; both are delivered to the callbacks
\* the driver has set on the utterance.
OnCancelledEnd(u) ==
  /\ u \in cancelEvents
  /\ utts[u].status = "interrupted"
  /\ cancelEvents' = cancelEvents \ {u}
  /\ audioState' = "ended"
  /\ notified' = "ended"
  /\ fx' = PlaySoundEffect(fx, "laugh")
  /\ spLast' = Did("end", {}, "ended")
  /\ UNCHANGED <<calavera, isSupported, utteranceRef, utts, lastBoundary,
                 queue, enginePaused, alerted, spReplayTimers, spSinceStop>>

\* ------------------------------------------------------ specifications
Init == SeqInit /\ SpAbsent

Next ==
  \/ ClickPlay /\ UNCHANGED spVars
  \/ ClickPause /\ UNCHANGED spVars
  \/ ClickResume /\ UNCHANGED spVars
  \/ ClickStop /\ UNCHANGED spVars
  \/ ClickReplay /\ UNCHANGED spVars
  \/ ClickShowAll /\ UNCHANGED spVars
  \/ ClickBack /\ UNCHANGED spVars
  \/ \E h \in 1..Len(audios) : CanPlay(h) /\ UNCHANGED spVars
  \/ \E h \in 1..Len(audios) : AudioError(h) /\ UNCHANGED spVars
  \/ \E h \in 1..Len(audios) : Ended(h) /\ UNCHANGED spVars
  \/ \E h \in 1..Len(audios) : Probe(h) /\ UNCHANGED spVars
  \/ FallbackFire /\ UNCHANGED spVars
  \/ ReplayFire /\ UNCHANGED spVars

Spec == Init /\ [][Next]_vars

\* Playback left to itself: the user presses play and, apart from the
\* show-all toggle, nothing else.  Timers that are due fire, and the host
\* delivers the events of an asset.
AutoNext ==
  \/ ClickPlay /\ UNCHANGED spVars
  \/ ClickShowAll /\ UNCHANGED spVars
  \/ ClickBack /\ UNCHANGED spVars
  \/ \E h \in 1..Len(audios) : CanPlay(h) /\ UNCHANGED spVars
  \/ \E h \in 1..Len(audios) : AudioError(h) /\ UNCHANGED spVars
  \/ \E h \in 1..Len(audios) : Ended(h) /\ UNCHANGED spVars
  \/ \E h \in 1..Len(audios) : Probe(h) /\ UNCHANGED spVars
  \/ FallbackFire /\ UNCHANGED spVars

\* a timer that is due fires and the host delivers the events of an asset:
\* the event loop does not leave a callback that is due waiting for ever
HostStep ==
  \/ \E h \in 1..Len(audios) : CanPlay(h) /\ UNCHANGED spVars
  \/ \E h \in 1..Len(audios) : AudioError(h) /\ UNCHANGED spVars
  \/ \E h \in 1..Len(audios) : Ended(h) /\ UNCHANGED spVars
  \/ \E h \in 1..Len(audios) : Probe(h) /\ UNCHANGED spVars
  \/ FallbackFire /\ UNCHANGED spVars

\* The component from mount to after its unmount: what Spec does, and the
\* unmount at any moment; timers and media events outlive the component.
LifeNext ==
  \/ Next
  \/ Unmount /\ UNCHANGED spVars

LifeSpec == Init /\ [][LifeNext]_vars

AutoFairness == WF_vars(HostStep)

AutoSpec == Init /\ [][AutoNext]_vars /\ AutoFairness

\* the poem the lifecycle of the driver is explored with
FullPoem == LaCalaca \o LaMeraMera \o <<" ">> \o EntroAaron

SpeechInit == calavera = FullPoem /\ SpMounted /\ SeqAbsent

SpeechNext ==
  \/ SpClickPlay /\ UNCHANGED seqVars
  \/ SpClickPause /\ UNCHANGED seqVars
  \/ SpClickResume /\ UNCHANGED seqVars
  \/ SpClickStop /\ UNCHANGED seqVars
  \/ SpClickReplay /\ UNCHANGED seqVars
  \/ SpReplayFire /\ UNCHANGED seqVars
  \/ \E u \in 1..Len(utts) : OnStart(u) /\ UNCHANGED seqVars
  \/ \E u \in 1..Len(utts) : \E c \in 0..Len(calavera) :
        OnBoundary(u, c) /\ UNCHANGED seqVars
  \/ \E u \in 1..Len(utts) : OnEnd(u) /\ UNCHANGED seqVars
  \/ \E u \in 1..Len(utts) : OnError(u) /\ UNCHANGED seqVars
  \/ \E u \in 1..Len(utts) : OnCancelled(u) /\ UNCHANGED seqVars
  \/ \E u \in 1..Len(utts) : OnCancelledEnd(u) /\ UNCHANGED seqVars

SpeechSpec == SpeechInit /\ [][SpeechNext]_vars

\* One narration pass of any of the poems: submitted once, spoken from the
\* start event through its boundary events to its end or its failure.
NarrationInit == SpInit /\ isSupported /\ SeqAbsent

NarrationNext ==
  \/ utts = <<>> /\ SpClickPlay /\ UNCHANGED seqVars
  \/ \E u \in 1..Len(utts) : OnStart(u) /\ UNCHANGED seqVars
  \/ \E u \in 1..Len(utts) : \E c \in 0..Len(calavera) :
        OnBoundary(u, c) /\ UNCHANGED seqVars
  \/ \E u \in 1..Len(utts) : OnEnd(u) /\ UNCHANGED seqVars
  \/ \E u \in 1..Len(utts) : OnError(u) /\ UNCHANGED seqVars

NarrationSpec == NarrationInit /\ [][NarrationNext]_vars

\* ======================================================= claims, sequencer

\* C1: after stop() the state is idle and the index is 0, and until the
\* next play() no callback created before the stop changes playState,
\* changes currentStanzaIndex or creates an audio handle.
C1_StopSilencesCallbacks ==
  [][ /\ sinceStop' => (playState' = "idle" /\ currentStanzaIndex' = 0)
      /\ (sinceStop /\ sinceStop') => Len(audios') = Len(audios)
    ]_vars

AllOk == \A i \in DOMAIN asset : asset[i] = "ok"

\* the stanza indices playStanza has entered, in order
Entries == [h \in 1..Len(audios) |-> audios[h].idx]

\* C2: a natural playback (every asset loads, plays and ends; the user
\* only pressed play) enters the stanzas 0, 1, ..., N-1 in that order,
\* each once, and has entered all of them when the state is ended.
C2_NaturalPlaybackInOrder ==
  (OpNames = <<"play">> /\ AllOk) =>
     /\ \A h \in 1..Len(audios) : audios[h].idx = h - 1
     /\ playState = "ended" => Len(audios) = stanzaCount

\* elements that are playing or have been asked to play
LiveHandles ==
  {h \in 1..Len(audios) : ~audios[h].paused /\ ~audios[h].ended}

\* C3: at most one live audio handle and at most one pending fallback timer.
C3_OneHandleOneTimer ==
  /\ Cardinality(LiveHandles) <= 1
  /\ Len(timers) <= 1

\* C4: for each entry into a stanza, playStanza(i+1) is invoked at most
\* once by the callbacks of that entry.
C4_AdvanceAtMostOnce ==
  \A h \in 1..Len(audios) : Len(audios[h].advances) <= 1

\* C6: resume() after pause() continues the stanza that was paused: the
\* index is the one at the pause and no new audio handle is created.
C6_ResumeSameStanza ==
  \A k \in 2..Len(ops) :
     (ops[k].op = "resume" /\ ops[k-1].op = "pause") =>
        /\ ops[k].i = ops[k-1].i
        /\ Len(audios) >= ops[k].n
        /\ \A h \in (ops[k-1].n + 1)..Len(audios) :
             audios[h].via # "resume" /\ audios[h].idx > ops[k-1].i

\* C7: the stanzas entered after replay() are those entered by the
\* original play(), also when play is pressed before the deferred play.
C7_ReplaySameTraversal ==
  ( /\ Len(ops) >= 2
    /\ ops[1].op = "play" /\ ops[2].op = "replay"
    /\ \A k \in 3..Len(ops) : ops[k].op = "play"
    /\ playState = "ended" /\ replayTimers = <<>> ) =>
       SubSeq(Entries, ops[2].n + 1, Len(audios)) = SubSeq(Entries, 1, ops[2].n)

Edges ==
  { <<"idle", "playing">>, <<"playing", "paused">>, <<"paused", "playing">>,
    <<"playing", "idle">>, <<"paused", "idle">>, <<"playing", "ended">>,
    <<"ended", "idle">> }

\* C8: playState changes only along the edges of the state machine.  (With
\* no stanzas handlePlay passes through playing inside the handler, so that
\* step shows idle -> ended.)
C8_OnlyStateMachineEdges ==
  [][ playState' # playState =>
        \/ <<playState, playState'>> \in Edges
        \/ /\ stanzaCount = 0 /\ playState = "idle" /\ playState' = "ended"
           /\ (ops' # ops \/ replayTimers' # replayTimers)
    ]_vars

Missing(i) == i \in DOMAIN asset /\ asset[i] \in {"error", "stall"}

HandlesOf(i) == {h \in 1..Len(audios) : audios[h].idx = i}

\* some callback of an entry into stanza i has invoked playStanza(i+1)
Advanced(i) == \E h \in HandlesOf(i) : audios[h].advances # <<>>

\* While a stanza with a missing asset waits, the state is playing and the
\* next stanza has not been entered; the advance is made by the 10 s timer.
C5_WaitsForFallback ==
  \A i \in DOMAIN asset :
     Missing(i) =>
        /\ \A h \in HandlesOf(i) :
              \A k \in 1..Len(audios[h].advances) :
                 audios[h].advances[k] = "timer"
        /\ (HandlesOf(i) # {} /\ ~Advanced(i)) =>
              (playState = "playing" /\ HandlesOf(i + 1) = {})

\* the model's cap on audio elements holds back the 10 s timer that is due
\* first (it would create an element), and with it the timers armed later
Capped ==
  /\ Len(audios) = MaxHandles
  /\ timers # <<>>
  /\ audios[Head(timers).h].idx + 1 < stanzaCount

\* C5: a stanza whose asset is missing (error event, or nothing until the
\* 500 ms probe) is left for the next stanza, or for ended after the last
\* one, when its 10 s fallback expires and not earlier, with the state
\* playing meanwhile, as long as the user neither pauses nor stops.
C5_MissingAssetAdvances ==
  /\ []C5_WaitsForFallback
  /\ \A i \in 0..(MaxStanzas - 1) :
       (Missing(i) /\ HandlesOf(i) # {}) ~>
          (Advanced(i) \/ Capped)

\* a stanza with a missing asset has been entered, has waited and has been
\* left by its fallback timer
C5_Witness ==
  \E i \in DOMAIN asset :
     /\ asset[i] = "stall"
     /\ \E h \in HandlesOf(i) : audios[h].advances = <<"timer">>
     /\ playState = IF i + 1 = stanzaCount THEN "ended" ELSE "playing"

\* C13: a step that toggles the show-all flag (the show-all button, the
\* back button) leaves playState, currentStanzaIndex, the active audio
\* handle, every audio element and every pending timer as they were.
\* (The deferred handlePlay of a replay also clears the flag; it is the
\* step that takes a replay timer off.)
C13_ShowAllLeavesPlayback ==
  [][ (/\ showAll' # showAll
       /\ ops' = ops
       /\ Len(replayTimers') = Len(replayTimers))
      => UNCHANGED <<playState, currentStanzaIndex, currentAudioRef,
                     fallbackTimerRef, audios, probes, timers, nextTimer,
                     replayTimers>>
    ]_vars

\* the full text is shown while a stanza later than the first is on, its
\* audio handle is held and a 10 s timer is pending
C13_Witness ==
  /\ showAll
  /\ playState = "playing"
  /\ currentStanzaIndex > 0
  /\ currentAudioRef # 0
  /\ timers # <<>>

\* C14: from pause() until the next click, the state is paused, the audio
\* handle is kept, no 10 s fallback timer is pending, and no stanza advance
\* takes place: the index is the one pause() found and no new audio
\* element has been created.
C14_PausedHoldsPosition ==
  (ops # <<>> /\ ops[Len(ops)].op = "pause") =>
     /\ playState = "paused"
     /\ currentAudioRef # 0
     /\ timers = <<>>
     /\ currentStanzaIndex = ops[Len(ops)].i
     /\ Len(audios) = ops[Len(ops)].n

\* the host has nothing left to deliver: no timer is pending, no element
\* has an event to come and none is playing
Settled ==
  /\ timers = <<>>
  /\ probes = {}
  /\ replayTimers = <<>>
  /\ \A h \in 1..Len(audios) :
        /\ audios[h].load = "loading" => asset[audios[h].idx] = "stall"
        /\ audios[h].load = "ok" => (audios[h].paused \/ audios[h].ended)

\* C15: play(), then pause() while the current stanza, whose asset has
\* failed, waits on its 10 s fallback, then resume() and no further click:
\* playback does not come to rest before the state is ended.
C15_ResumeDoesNotStall ==
  (/\ OpNames = <<"play", "pause", "resume">>
   /\ ops[2].w
   /\ asset[ops[2].i] # "ok"
   /\ Settled)
  => playState = "ended"

\* C16: when the 500 ms probe of an audio element runs and canplay or error
\* has already fired for that element, the probe does nothing: it arms no
\* timer and writes nothing.  (A step that takes a handle out of probes is
\* the run of that handle's probe.)
C16_ProbeOnlyWhenSilent ==
  [][ \A h \in probes \ probes' :
         audios[h].load # "loading" =>
            UNCHANGED <<timers, nextTimer, fallbackTimerRef, audios>>
    ]_vars

\* C17: with only play() pressed, an audio element whose asset loaded
\* (canplay) and whose play() was rejected has had exactly one 10 s
\* fallback timer armed, the state is playing until that timer has
\* advanced the stanza, and the element advances the stanza at most once.
C17_RejectedPlayOneFallback ==
  \A h \in 1..Len(audios) :
     (/\ OpNames = <<"play">>
      /\ audios[h].load = "ok"
      /\ \E k \in 1..Len(audios[h].armed) : audios[h].armed[k] = "rejected")
     => /\ Len(audios[h].armed) = 1
        /\ Len(audios[h].advances) <= 1
        /\ audios[h].advances = <<>> => playState = "playing"

\* C18: once the component is unmounted no audio handle is held and no
\* element is playing, no timer of the sequencer is pending (10 s
\* fallback, 500 ms probe, 100 ms replay), and no later callback creates
\* an audio element or changes playState or currentStanzaIndex.
C18_UnmountReleasesAll ==
  [][ ~mounted' =>
        /\ currentAudioRef' = 0
        /\ \A h \in 1..Len(audios') :
              audios'[h].paused \/ audios'[h].ended
        /\ timers' = <<>> /\ probes' = {} /\ replayTimers' = <<>>
        /\ ~mounted =>
              /\ Len(audios') = Len(audios)
              /\ UNCHANGED <<playState, currentStanzaIndex>>
    ]_vars

\* C22: in every reachable state currentStanzaIndex is in 0..N-1 (0 when
\* there is no stanza), and once the state is ended the index is that of
\* the last stanza entered.
C22_IndexInRange ==
  /\ currentStanzaIndex \in
        (IF stanzaCount = 0 THEN {0} ELSE 0..(stanzaCount - 1))
  /\ (playState = "ended" /\ stanzaCount > 0) =>
        /\ audios # <<>>
        /\ currentStanzaIndex = audios[Len(audios)].idx

\* ================================================== claims, speech driver

\* utterances that are queued or being spoken
ActiveUtts ==
  {u \in 1..Len(utts) : utts[u].status \in {"queued", "speaking"}}

\* C9: after play() is invoked again, the engine holds exactly one
\* utterance, the one just submitted; every earlier one has been cancelled
\* or has finished.
C9_OneActiveUtterance ==
  /\ ActiveUtts \subseteq {Len(utts)}
  /\ QueueSet(queue) = ActiveUtts
  /\ Len(queue) = Cardinality(ActiveUtts)

\* play() was invoked while the utterance of the play() before it was being
\* spoken: that one was interrupted and only the new one is in the engine
C9_Witness ==
  /\ Len(utts) >= 2
  /\ utts[Len(utts) - 1].status = "interrupted"
  /\ utts[Len(utts) - 1].by = "play"
  /\ utts[Len(utts)].status = "queued"
  /\ queue = <<Len(utts)>>

\* C10: during one narration pass the effect 'chains' is fired at most
\* once, for every poem that contains 'la Calaca'.
C10_ChainsAtMostOnce ==
  Includes(calavera, LaCalaca) => fx["chains"] <= 1

\* C11: stop() empties the engine's queue and sets the state to idle, and
\* from then until the next utterance is submitted the state stays idle and
\* no sound effect is played, whichever callback of a cancelled utterance
\* is delivered in between.
C11_StopSilencesNarration ==
  [][ /\ spSinceStop' => (audioState' = "idle" /\ queue' = <<>>)
      /\ (spSinceStop /\ spSinceStop') => fx' = fx
    ]_vars

\* C12: where the browser has no speech synthesis, play() is refused: no
\* utterance is ever created or queued, no method of the engine is called,
\* the state stays idle and the listener is never notified.
C12_UnsupportedPlayRefused ==
  ~isSupported =>
     /\ utts = <<>>
     /\ queue = <<>>
     /\ utteranceRef = 0
     /\ audioState = "idle"
     /\ notified = "none"
     /\ spLast.calls = {}
     /\ spLast.notif = "none"

\* play() was pressed in a browser without speech synthesis and was
\* answered with the alert
C12_Witness ==
  /\ ~isSupported
  /\ spLast.op = "play"
  /\ alerted

\* C19: the start callback sets the state to playing (and notifies, and
\* plays 'dramatic'); the end callback sets it to ended (and notifies, and
\* plays 'laugh'); the error callback sets it to idle, creates and submits
\* no utterance and calls no method of the engine.  The state becomes
\* ended by the end callback only, and becomes playing by the start
\* callback only (or, from paused, by resume()): never by play() itself.
C19_CallbacksDriveState ==
  [][ /\ spLast'.op = "start" =>
           /\ audioState' = "playing" /\ notified' = "playing"
           /\ fx' = PlaySoundEffect(fx, "dramatic")
      /\ spLast'.op = "end" =>
           /\ audioState' = "ended" /\ notified' = "ended"
           /\ fx' = PlaySoundEffect(fx, "laugh")
      /\ spLast'.op = "error" =>
           /\ audioState' = "idle" /\ notified' = "idle"
           /\ Len(utts') = Len(utts)
           /\ QueueSet(queue') \subseteq QueueSet(queue)
           /\ spLast'.calls = {}
           /\ fx' = fx
      /\ (audioState' = "ended" /\ audioState # "ended") =>
           spLast'.op = "end"
      /\ (audioState' = "playing" /\ audioState # "playing") =>
           spLast'.op = IF audioState = "paused" THEN "resume" ELSE "start"
    ]_vars

\* one utterance has failed (state idle, play() pressed again) and a later
\* one has been spoken to its end
C19_Witness ==
  /\ \E u \in 1..Len(utts) : utts[u].status = "failed"
  /\ utts[Len(utts)].status = "ended"
  /\ spLast.op = "end"
  /\ audioState = "ended"
  /\ fx["laugh"] = 1 /\ fx["dramatic"] = 1

\* C20: pause() pauses the engine, sets paused and notifies only when the
\* engine is speaking and not paused, and resume() resumes, sets playing
\* and notifies only when the engine is paused; otherwise the handler
\* leaves the state, the engine and the listener as they were and calls no
\* method of the engine.
C20_PauseResumeGuarded ==
  [][ /\ spLast'.op = "pause" =>
           IF EngineSpeaking /\ ~enginePaused
           THEN /\ enginePaused' /\ audioState' = "paused"
                /\ spLast' = Did("pause", {"pause"}, "paused")
           ELSE /\ spLast' = Did("pause", {}, "none")
                /\ UNCHANGED <<audioState, notified, enginePaused, queue,
                               utts, utteranceRef, cancelEvents, fx>>
      /\ spLast'.op = "resume" =>
           IF enginePaused
           THEN /\ ~enginePaused' /\ audioState' = "playing"
                /\ spLast' = Did("resume", {"resume"}, "playing")
           ELSE /\ spLast' = Did("resume", {}, "none")
                /\ UNCHANGED <<audioState, notified, enginePaused, queue,
                               utts, utteranceRef, cancelEvents, fx>>
    ]_vars

\* pause() was pressed while the state was playing and the engine was not
\* speaking (a new utterance was queued and had not started): nothing was done
C20_Witness ==
  /\ spLast = Did("pause", {}, "none")
  /\ audioState = "playing"
  /\ ~EngineSpeaking
  /\ ~enginePaused

\* C21: during one narration pass the effect 'steps' is fired at most
\* once, for every poem that contains 'entro Aaron' and every increasing
\* sequence of boundary events.
C21_StepsAtMostOnce ==
  Includes(calavera, EntroAaron) => fx["steps"] <= 1

\* C23: the listener is told every state the driver takes: while it has
\* been told nothing the state is still the initial idle, once it has been
\* told something the last value it received is the driver's state, and
\* a handler or callback that notifies has written the value it reports.
C23_ListenerFollowsState ==
  /\ notified = "none" => audioState = "idle"
  /\ notified # "none" => notified = audioState
  /\ spLast.notif # "none" =>
        (spLast.notif = audioState /\ spLast.notif = notified)

\* the listener has been told playing, paused and playing again
C23_Witness ==
  /\ spLast = Did("resume", {"resume"}, "playing")
  /\ notified = "playing"
  /\ audioState = "playing"

====
